---- MODULE Spec2Model ----
(***************************************************************************)
(* Model of the RAG pipeline of next-js-aisdk:                             *)
(*   - processPdfFile  (app/upload/actions.ts, shown in route.ts 100-141)  *)
(*   - searchDocuments (lib/rag-utils/search.ts, RagCode.tsx 161-171)      *)
(*   - the searchKnoledgeBase tool (route.ts 16-43)                        *)
(*   - the documents table (lib/rag-utils/db-schema.ts, RagCode.tsx 108+)  *)
(* Similarities are fixed-point numbers in hundredths (0.5 is 50).         *)
(* An embedding is written [dim, head]: a vector of dim coordinates whose  *)
(* first four are head and whose other coordinates are zero.               *)
(***************************************************************************)
EXTENDS Integers, Sequences, FiniteSets, TLC

\* ------------------------------------------------------------------ bounds
\* concurrent calls of processPdfFile
NumProcs == 2
\* most chunks the splitter returns for one document
MaxChunks == 2

\* --------------------------------------------------------- program constants
\* vector("embedding", { dimensions: 1536 })
EmbeddingDim == 1536
\* searchDocuments(query, 3, 0.5): the tool's limit
ToolLimit == 3
\* searchDocuments(query, 3, 0.5): the tool's threshold, in hundredths
ToolThreshold == 50

Procs == 1..NumProcs

VARIABLES
    rows,        \* the documents table, in insertion order
    pc,          \* pc[p]: where call p of processPdfFile stands
    text,        \* text[p]: data.text of call p
    chunks,      \* chunks[p]: the result of chunkContent
    embeddings,  \* embeddings[p]: the result of generateEmbeddings
    result,      \* result[p]: the value call p returned
    cause,       \* cause[p]: the branch on which call p failed
    calls,       \* calls[p]: the collaborators call p has invoked
    insertedBy,  \* insertedBy[p]: ids of the rows call p's insert added
    spc,         \* where the search stands
    sargs,       \* the search's arguments
    qEmb,        \* the query's embedding
    ret,         \* what searchDocuments returned or threw
    toolOut,     \* what the tool's execute returned
    mpc,         \* where the request stands in the middleware
    req,         \* the request: its path, IS_DEV_MODE, the caller's session
    protectCalled \* whether auth.protect() was called for the request

vars == <<rows, pc, text, chunks, embeddings, result, cause, calls, insertedBy,
          spc, sargs, qEmb, ret, toolOut, mpc, req, protectCalled>>
ingestVars == <<rows, pc, text, chunks, embeddings, result, cause, calls, insertedBy>>
searchVars == <<spc, sargs, qEmb, ret, toolOut>>
mwVars == <<mpc, req, protectCalled>>

\* ------------------------------------------------------------------- texts
\* data.text: absent, or a string (a sequence of characters)
NoText == [present |-> FALSE, chars |-> <<>>]
Str(cs) == [present |-> TRUE, chars |-> cs]

IsSpace(c) == c \in {" ", "\n", "\t"}

RECURSIVE TrimStart(_)
TrimStart(s) ==
    IF s = <<>> THEN s
    ELSE IF IsSpace(Head(s)) THEN TrimStart(Tail(s)) ELSE s

RECURSIVE TrimEnd(_)
TrimEnd(s) ==
    IF s = <<>> THEN s
    ELSE IF IsSpace(s[Len(s)]) THEN TrimEnd(SubSeq(s, 1, Len(s) - 1)) ELSE s

\* String.prototype.trim
Trim(s) == TrimEnd(TrimStart(s))

\* the test without the trim: a text of blanks passes for a document
IsEmptyTextNoTrim(t) == (~t.present) \/ t.chars = <<>>

\* !data.text || data.text.trim().length === 0
IsEmptyText(t) == (~t.present) \/ t.chars = <<>> \/ Len(Trim(t.chars)) = 0

\* the texts the parser may extract
Texts == {NoText, Str(<<>>), Str(<<" ", "\n">>), Str(<<" ", "a", "\n">>)}

\* -------------------------------------------------------------- embeddings
\* three directions: their cosines are 0.8, 0.5 and 0.7
Heads == {<<10, 0, 0, 0>>, <<8, 6, 0, 0>>, <<5, 5, 5, 5>>}

\* what the embedding service may return for one text
Vectors ==
    [dim : {EmbeddingDim}, head : Heads]
        \cup {[dim |-> EmbeddingDim - 1, head |-> <<10, 0, 0, 0>>]}

\* a record's embedding when embeddings[index] is undefined: the column's NULL
NullEmbedding == [dim |-> 0, head |-> <<0, 0, 0, 0>>]

Dot(a, b) == a[1] * b[1] + a[2] * b[2] + a[3] * b[3] + a[4] * b[4]

Norm(a) == CHOOSE n \in 0..Dot(a, a) : n * n = Dot(a, a)

\* cosineDistance(documents.embedding, embedding): 1 - cos, in hundredths
CosineDistance(a, b) == 100 - ((100 * Dot(a.head, b.head)) \div (Norm(a.head) * Norm(b.head)))

\* sql`1-(${cosineDistance(documents.embedding, embedding)})`
Similarity(a, b) == 100 - CosineDistance(a, b)

\* ---------------------------------------------------- the documents table
\* chunks.map((chunk, index) => ({content: chunk, embedding: embeddings[index]}))
Records(cs, es) ==
    [i \in 1..Len(cs) |->
        [content |-> cs[i],
         embedding |-> IF i <= Len(es) THEN es[i] ELSE NullEmbedding]]

\* the column accepts NULL (it is not declared notNull) and vectors of
\* exactly EmbeddingDim coordinates
ColumnAccepts(e) == e = NullEmbedding \/ e.dim = EmbeddingDim

\* the rows one INSERT statement appends: id is the serial primary key
NewRows(rs, recs) ==
    [i \in 1..Len(recs) |->
        [id |-> Len(rs) + i, content |-> recs[i].content, embedding |-> recs[i].embedding]]

\* an insert that stores the first record only
InsertValuesFirstOnly(rs, recs) == rs \o SubSeq(NewRows(rs, recs), 1, 1)

\* db.insert(documents).values(records): one statement, all rows or an error
InsertValues(rs, recs) == rs \o NewRows(rs, recs)

\* ------------------------------------------------- processPdfFile's returns
NoResult == [success |-> FALSE, text |-> "", count |-> 0]
EmptyFailure == [success |-> FALSE, text |-> "No text found in PDF", count |-> 0]
GenericFailure == [success |-> FALSE, text |-> "Failed to process PDF", count |-> 0]
\* message: `Created ${records.length} searchable chunks`
Created(n) == [success |-> TRUE, text |-> "Created searchable chunks", count |-> n]

\* the catch block of processPdfFile: the error is logged, the return is fixed
Catch(p, kind) ==
    /\ pc' = [pc EXCEPT ![p] = "done"]
    /\ result' = [result EXCEPT ![p] = GenericFailure]
    /\ cause' = [cause EXCEPT ![p] = kind]
    /\ embeddings' = [embeddings EXCEPT ![p] = <<>>]

\* parser.getText() throws (or the form holds no readable file)
GetTextFails(p) ==
    /\ pc[p] = "idle"
    /\ calls' = [calls EXCEPT ![p] = @ \cup {"getText"}]
    /\ Catch(p, "parse")
    /\ UNCHANGED <<rows, text, chunks, insertedBy>>
    /\ UNCHANGED searchVars
    /\ UNCHANGED mwVars

\* const data = await parser.getText(); then the test for an empty text
GetText(p) ==
    /\ pc[p] = "idle"
    /\ \E t \in Texts :
        /\ text' = [text EXCEPT ![p] = t]
        /\ calls' = [calls EXCEPT ![p] = @ \cup {"getText"}]
        /\ IF IsEmptyText(t)
           THEN /\ pc' = [pc EXCEPT ![p] = "done"]
                /\ result' = [result EXCEPT ![p] = EmptyFailure]
                /\ cause' = [cause EXCEPT ![p] = "empty"]
           ELSE /\ pc' = [pc EXCEPT ![p] = "chunk"]
                /\ UNCHANGED <<result, cause>>
    /\ UNCHANGED <<rows, chunks, embeddings, insertedBy>>
    /\ UNCHANGED searchVars
    /\ UNCHANGED mwVars

\* const chunks = await chunkContent(data.text): the splitter is a library;
\* it returns one or more non-empty pieces of the trimmed text, in order
ChunkContent(p) ==
    /\ pc[p] = "chunk"
    /\ \E n \in 1..MaxChunks :
        chunks' = [chunks EXCEPT ![p] = [i \in 1..n |-> [doc |-> p, part |-> i]]]
    /\ calls' = [calls EXCEPT ![p] = @ \cup {"chunkContent"}]
    /\ pc' = [pc EXCEPT ![p] = "embed"]
    /\ UNCHANGED <<rows, text, embeddings, result, cause, insertedBy>>
    /\ UNCHANGED searchVars
    /\ UNCHANGED mwVars

\* const embeddings = await generateEmbeddings(chunks): embedMany answers
\* with the vectors the service sent
GenerateEmbeddings(p) ==
    /\ pc[p] = "embed"
    /\ \E k \in 0..Len(chunks[p]) : \E es \in [1..k -> Vectors] :
        embeddings' = [embeddings EXCEPT ![p] = es]
    /\ calls' = [calls EXCEPT ![p] = @ \cup {"generateEmbeddings"}]
    /\ pc' = [pc EXCEPT ![p] = "insert"]
    /\ UNCHANGED <<rows, text, chunks, result, cause, insertedBy>>
    /\ UNCHANGED searchVars
    /\ UNCHANGED mwVars

\* chunks embedded and stored one at a time: the first is in the table when
\* the embedding of a later one throws
GenerateEmbeddingsFailsAfterInsert(p) ==
    /\ pc[p] = "embed"
    /\ calls' = [calls EXCEPT ![p] = @ \cup {"generateEmbeddings"}]
    /\ \E v \in Vectors :
        /\ v.dim = EmbeddingDim
        /\ rows' = InsertValues(rows, Records(SubSeq(chunks[p], 1, 1), <<v>>))
    /\ Catch(p, "embed")
    /\ UNCHANGED <<text, chunks, insertedBy>>
    /\ UNCHANGED searchVars
    /\ UNCHANGED mwVars

\* embedMany throws
GenerateEmbeddingsFails(p) ==
    /\ pc[p] = "embed"
    /\ calls' = [calls EXCEPT ![p] = @ \cup {"generateEmbeddings"}]
    /\ Catch(p, "embed")
    /\ UNCHANGED <<rows, text, chunks, insertedBy>>
    /\ UNCHANGED searchVars
    /\ UNCHANGED mwVars

\* await db.insert(documents).values(records) succeeds, then the return
Insert(p) ==
    /\ pc[p] = "insert"
    /\ LET records == Records(chunks[p], embeddings[p]) IN
        /\ \A i \in 1..Len(records) : ColumnAccepts(records[i].embedding)
        /\ rows' = InsertValues(rows, records)
        /\ insertedBy' = [insertedBy EXCEPT ![p] = {Len(rows) + i : i \in 1..Len(records)}]
        /\ result' = [result EXCEPT ![p] = Created(Len(records))]
    /\ calls' = [calls EXCEPT ![p] = @ \cup {"insert"}]
    /\ pc' = [pc EXCEPT ![p] = "done"]
    /\ embeddings' = [embeddings EXCEPT ![p] = <<>>]
    /\ UNCHANGED <<text, chunks, cause>>
    /\ UNCHANGED searchVars
    /\ UNCHANGED mwVars

\* the statement is refused: some vector has another dimension
InsertRejected(p) ==
    /\ pc[p] = "insert"
    /\ LET records == Records(chunks[p], embeddings[p]) IN
        \E i \in 1..Len(records) : ~ColumnAccepts(records[i].embedding)
    /\ calls' = [calls EXCEPT ![p] = @ \cup {"insert"}]
    /\ Catch(p, "store")
    /\ UNCHANGED <<rows, text, chunks, insertedBy>>
    /\ UNCHANGED searchVars
    /\ UNCHANGED mwVars

\* the statement fails for another reason (the database cannot be reached)
InsertFails(p) ==
    /\ pc[p] = "insert"
    /\ calls' = [calls EXCEPT ![p] = @ \cup {"insert"}]
    /\ Catch(p, "store")
    /\ UNCHANGED <<rows, text, chunks, insertedBy>>
    /\ UNCHANGED searchVars
    /\ UNCHANGED mwVars

\* ---------------------------------------------------------- searchDocuments
\* the limits and thresholds a caller of searchDocuments passes
Limits == 1..ToolLimit
Thresholds == {0, ToolThreshold}

RowSet(rs) == {rs[i] : i \in 1..Len(rs)}

\* the filter with gte in place of gt
WhereInclusive(rs, q, threshold) ==
    {r \in RowSet(rs) :
        /\ r.embedding # NullEmbedding
        /\ Similarity(r.embedding, q) >= threshold}

\* .where(gt(similarity, threshold)): a NULL embedding has no similarity
Where(rs, q, threshold) ==
    {r \in RowSet(rs) :
        /\ r.embedding # NullEmbedding
        /\ Similarity(r.embedding, q) > threshold}

\* .select({ id: documents.id, content: documents.content, similarity })
Select(r, q) ==
    [id |-> r.id, content |-> r.content, similarity |-> Similarity(r.embedding, q)]

\* the ordering with asc in place of desc
FirstAscending(S) == {x \in S : \A y \in S : x.similarity <= y.similarity}

\* of the candidates, those no other candidate precedes under desc(similarity)
First(S) == {x \in S : \A y \in S : x.similarity >= y.similarity}

\* the query without its limit clause
RECURSIVE OrderByDescNoLimit(_, _)
OrderByDescNoLimit(S, limit) ==
    IF S = {} THEN {<<>>}
    ELSE UNION {{<<m>> \o s : s \in OrderByDescNoLimit(S \ {m}, limit)} :
                    m \in {x \in S : \A y \in S : x.similarity >= y.similarity}}

\* .orderBy(desc(similarity)).limit(limit): the first `limit` rows of an
\* ordering by descending similarity; no second key orders equal similarities
RECURSIVE OrderByDescLimit(_, _)
OrderByDescLimit(S, limit) ==
    IF limit = 0 \/ S = {} THEN {<<>>}
    ELSE UNION {{<<m>> \o s : s \in OrderByDescLimit(S \ {m}, limit - 1)} : m \in First(S)}

\* the sequences the query of searchDocuments may return
SearchDocuments(rs, q, limit, threshold) ==
    OrderByDescLimit({Select(r, q) : r \in Where(rs, q, threshold)}, limit)

\* the operator <=> raises an error on vectors of different dimensions
DifferentDimensions(rs, q) ==
    \E r \in RowSet(rs) : r.embedding # NullEmbedding /\ r.embedding.dim # q.dim

\* what searchDocuments returned or threw
NoReturn == [outcome |-> "none", results |-> <<>>, error |-> ""]
Returned(res) == [outcome |-> "ok", results |-> res, error |-> ""]
Thrown(msg) == [outcome |-> "thrown", results |-> <<>>, error |-> msg]

\* ------------------------------------------- the searchKnoledgeBase tool
NoOutput == [kind |-> "none", snippets |-> <<>>, details |-> ""]
NoRelevant == [kind |-> "No relevant information found", snippets |-> <<>>, details |-> ""]
\* results.map((r, i) => `[${i + 1}] ${r.content}`).join("\n")
FormattedResults(res) ==
    [kind |-> "formattedResults",
     snippets |-> [i \in 1..Len(res) |-> [number |-> i, content |-> res[i].content]],
     details |-> ""]
ErrorObject(msg) ==
    [kind |-> "Failed to search the knowledge base", snippets |-> <<>>, details |-> msg]

\* the body of execute after searchDocuments returned
Execute(res) == IF Len(res) = 0 THEN NoRelevant ELSE FormattedResults(res)

\* execute: async ({ query }) => searchDocuments(query, 3, 0.5)
ToolExecute ==
    /\ spc = "idle"
    /\ sargs' = [viaTool |-> TRUE, limit |-> ToolLimit, threshold |-> ToolThreshold]
    /\ spc' = "embed"
    /\ UNCHANGED <<qEmb, ret, toolOut>>
    /\ UNCHANGED ingestVars
    /\ UNCHANGED mwVars

\* another caller of searchDocuments(query, limit, threshold)
DirectSearch ==
    /\ spc = "idle"
    /\ \E l \in Limits, t \in Thresholds :
        sargs' = [viaTool |-> FALSE, limit |-> l, threshold |-> t]
    /\ spc' = "embed"
    /\ UNCHANGED <<qEmb, ret, toolOut>>
    /\ UNCHANGED ingestVars
    /\ UNCHANGED mwVars

\* a search that swallows the error and answers with no rows
ThrowAsEmpty(msg) ==
    /\ ret' = Returned(<<>>)
    /\ toolOut' = IF sargs.viaTool THEN Execute(<<>>) ELSE NoOutput
    /\ spc' = "returned"

\* searchDocuments throws msg: execute's catch turns it into the error object
Throw(msg) ==
    /\ ret' = Thrown(msg)
    /\ toolOut' = IF sargs.viaTool THEN ErrorObject(msg) ELSE NoOutput
    /\ spc' = "returned"

\* const embedding = await generateEmbedding(query)
GenerateEmbedding ==
    /\ spc = "embed"
    /\ \E v \in Vectors : qEmb' = v
    /\ spc' = "query"
    /\ UNCHANGED <<sargs, ret, toolOut>>
    /\ UNCHANGED ingestVars
    /\ UNCHANGED mwVars

\* embed throws
GenerateEmbeddingFails ==
    /\ spc = "embed"
    /\ Throw("embedding failed")
    /\ UNCHANGED <<sargs, qEmb>>
    /\ UNCHANGED ingestVars
    /\ UNCHANGED mwVars

\* const similarDocuments = await db.select(...)...; return similarDocuments
Query ==
    /\ spc = "query"
    /\ ~DifferentDimensions(rows, qEmb)
    /\ \E res \in SearchDocuments(rows, qEmb, sargs.limit, sargs.threshold) :
        /\ ret' = Returned(res)
        /\ toolOut' = IF sargs.viaTool THEN Execute(res) ELSE NoOutput
    /\ spc' = "returned"
    /\ UNCHANGED <<sargs, qEmb>>
    /\ UNCHANGED ingestVars
    /\ UNCHANGED mwVars

\* the query is refused: the query vector has another dimension than a row's
QueryRejected ==
    /\ spc = "query"
    /\ DifferentDimensions(rows, qEmb)
    /\ Throw("different vector dimensions")
    /\ UNCHANGED <<sargs, qEmb>>
    /\ UNCHANGED ingestVars
    /\ UNCHANGED mwVars

\* the query fails for another reason (the database cannot be reached)
QueryFails ==
    /\ spc = "query"
    /\ Throw("query failed")
    /\ UNCHANGED <<sargs, qEmb>>
    /\ UNCHANGED ingestVars
    /\ UNCHANGED mwVars

\* the caller has the outcome; the next search may start
SearchDone ==
    /\ spc = "returned"
    /\ spc' = "idle"
    /\ sargs' = [viaTool |-> FALSE, limit |-> 1, threshold |-> 0]
    /\ qEmb' = NullEmbedding
    /\ ret' = NoReturn
    /\ toolOut' = NoOutput
    /\ UNCHANGED ingestVars
    /\ UNCHANGED mwVars

\* -------------------------------------------------------------- middleware
\* A path is a sequence of tokens: /ui/rag/x.css is
\* <<"/", "ui", "/", "rag", "/", "x", ".", "css">>, and .json is ".", "js", "on".
StartsWith(s, pre) == Len(s) >= Len(pre) /\ SubSeq(s, 1, Len(pre)) = pre

\* the paths of the requests
Paths ==
    { <<"/">>,
      <<"/", "ui", "/", "rag">>,
      <<"/", "ui", "/", "rag", "/", "x">>,
      <<"/", "ui", "/", "rag", "/", "x", ".", "css">>,
      <<"/", "ui", "/", "rag", "/", "x", ".", "js", "on">>,
      <<"/", "ui", "/", "chat">>,
      <<"/", "api", "/", "rag">>,
      <<"/", "api", "/", "rag", "/", "x", ".", "js">>,
      <<"/", "api", "/", "chat">>,
      <<"/", "upload">>,
      <<"/", "upload", "s">>,
      <<"/", "upload", "/", "x", ".", "png">>,
      <<"/", "_next", "/", "x">> }

\* process.env.IS_DEV_MODE: unset, or a string
EnvValues ==
    { [set |-> FALSE, value |-> ""], [set |-> TRUE, value |-> ""],
      [set |-> TRUE, value |-> "true"], [set |-> TRUE, value |-> "false"] }

\* the truth value of process.env.IS_DEV_MODE: a string other than "" is true
IsDevMode(v) == v.set /\ v.value # ""

NoRequest == [path |-> <<"/">>, env |-> [set |-> FALSE, value |-> ""], signedIn |-> FALSE]

\* createRouteMatcher(["/ui/rag(.*)", "/api/rag(.*)"]): the list without "/upload(.*)"
IsProtectedRouteWithoutUpload(path) ==
    \/ StartsWith(path, <<"/", "ui", "/", "rag">>)
    \/ StartsWith(path, <<"/", "api", "/", "rag">>)

\* createRouteMatcher(["/ui/rag(.*)", "/api/rag(.*)", "/upload(.*)"])
IsProtectedRoute(path) ==
    \/ StartsWith(path, <<"/", "ui", "/", "rag">>)
    \/ StartsWith(path, <<"/", "api", "/", "rag">>)
    \/ StartsWith(path, <<"/", "upload">>)

\* createRouteMatcher(["/upload(.*)"])
IsAdminRoute(path) == StartsWith(path, <<"/", "upload">>)

\* \.(?:html?|css|js(?!on)|jpe?g|...|png|...) somewhere after the first "/";
\* of the extensions the pattern lists, the paths here use css, js and png
HasStaticExtension(path) ==
    \E i \in 2..(Len(path) - 1) :
        /\ path[i] = "."
        /\ \/ path[i + 1] \in {"css", "png"}
           \/ path[i + 1] = "js" /\ ~(i + 2 <= Len(path) /\ path[i + 2] = "on")

\* config.matcher: the requests the middleware runs for
ConfigMatcher(path) ==
    \/ /\ path[1] = "/"
       /\ ~(Len(path) >= 2 /\ path[2] = "_next")
       /\ ~HasStaticExtension(path)
    \/ /\ path[1] = "/"
       /\ Len(path) >= 2
       /\ path[2] \in {"api", "trpc"}

\* a request arrives
Request ==
    /\ mpc = "idle"
    /\ \E path \in Paths, env \in EnvValues, signedIn \in BOOLEAN :
        req' = [path |-> path, env |-> env, signedIn |-> signedIn]
    /\ mpc' = "matcher"
    /\ protectCalled' = FALSE
    /\ UNCHANGED <<ingestVars, searchVars>>

\* config.matcher does not select the path: the middleware does not run
MatcherSkips ==
    /\ mpc = "matcher"
    /\ ~ConfigMatcher(req.path)
    /\ mpc' = "handler"
    /\ UNCHANGED <<req, protectCalled>>
    /\ UNCHANGED <<ingestVars, searchVars>>

\* if (isAdminRoute(req) && !process.env.IS_DEV_MODE) return NextResponse.redirect("/")
AdminRedirect ==
    /\ mpc = "matcher"
    /\ ConfigMatcher(req.path)
    /\ IsAdminRoute(req.path) /\ ~IsDevMode(req.env)
    /\ mpc' = "redirected"
    /\ UNCHANGED <<req, protectCalled>>
    /\ UNCHANGED <<ingestVars, searchVars>>

\* if (isProtectedRoute(req)) await auth.protect()
Protect ==
    /\ mpc = "matcher"
    /\ ConfigMatcher(req.path)
    /\ ~(IsAdminRoute(req.path) /\ ~IsDevMode(req.env))
    /\ IsProtectedRoute(req.path)
    /\ protectCalled' = TRUE
    /\ mpc' = "protect"
    /\ UNCHANGED req
    /\ UNCHANGED <<ingestVars, searchVars>>

\* auth.protect() resolves for a signed-in caller: the route handler runs
ProtectPasses ==
    /\ mpc = "protect"
    /\ req.signedIn
    /\ mpc' = "handler"
    /\ UNCHANGED <<req, protectCalled>>
    /\ UNCHANGED <<ingestVars, searchVars>>

\* auth.protect() refuses a caller without a session: no route handler runs
ProtectRejects ==
    /\ mpc = "protect"
    /\ ~req.signedIn
    /\ mpc' = "rejected"
    /\ UNCHANGED <<req, protectCalled>>
    /\ UNCHANGED <<ingestVars, searchVars>>

\* neither branch is taken: the route handler runs
NotProtected ==
    /\ mpc = "matcher"
    /\ ConfigMatcher(req.path)
    /\ ~(IsAdminRoute(req.path) /\ ~IsDevMode(req.env))
    /\ ~IsProtectedRoute(req.path)
    /\ mpc' = "handler"
    /\ UNCHANGED <<req, protectCalled>>
    /\ UNCHANGED <<ingestVars, searchVars>>

\* the response is sent
Respond ==
    /\ mpc \in {"handler", "redirected", "rejected"}
    /\ mpc' = "idle"
    /\ req' = NoRequest
    /\ protectCalled' = FALSE
    /\ UNCHANGED <<ingestVars, searchVars>>

\* ------------------------------------------------------------ specification
Init ==
    /\ rows = <<>>
    /\ pc = [p \in Procs |-> "idle"]
    /\ text = [p \in Procs |-> NoText]
    /\ chunks = [p \in Procs |-> <<>>]
    /\ embeddings = [p \in Procs |-> <<>>]
    /\ result = [p \in Procs |-> NoResult]
    /\ cause = [p \in Procs |-> "none"]
    /\ calls = [p \in Procs |-> {}]
    /\ insertedBy = [p \in Procs |-> {}]
    /\ spc = "idle"
    /\ sargs = [viaTool |-> FALSE, limit |-> 1, threshold |-> 0]
    /\ qEmb = NullEmbedding
    /\ ret = NoReturn
    /\ toolOut = NoOutput
    /\ mpc = "idle"
    /\ req = NoRequest
    /\ protectCalled = FALSE

Next ==
    \/ \E p \in Procs : GetTextFails(p)
    \/ \E p \in Procs : GetText(p)
    \/ \E p \in Procs : ChunkContent(p)
    \/ \E p \in Procs : GenerateEmbeddings(p)
    \/ \E p \in Procs : GenerateEmbeddingsFails(p)
    \/ \E p \in Procs : Insert(p)
    \/ \E p \in Procs : InsertRejected(p)
    \/ \E p \in Procs : InsertFails(p)
    \/ ToolExecute
    \/ DirectSearch
    \/ GenerateEmbedding
    \/ GenerateEmbeddingFails
    \/ Query
    \/ QueryRejected
    \/ QueryFails
    \/ SearchDone

Spec == Init /\ [][Next]_vars

\* the middleware alone
NextMiddleware ==
    \/ Request
    \/ MatcherSkips
    \/ AdminRedirect
    \/ Protect
    \/ ProtectPasses
    \/ ProtectRejects
    \/ NotProtected
    \/ Respond

SpecMiddleware == Init /\ [][NextMiddleware]_vars

\* ================================================================== claims
\* the rows whose content is a chunk of document p
DocRows(p) == {r \in RowSet(rows) : r.content.doc = p}
Ids(res) == {res[i].id : i \in 1..Len(res)}
Min(a, b) == IF a <= b THEN a ELSE b
\* the step in which the query of searchDocuments returns its rows
QueryReturns == spc = "query" /\ spc' = "returned" /\ ret'.outcome = "ok"

\* C1: when the batch embedding call of an ingestion fails, the call returns
\* success = false, its insert is never issued and no row of that document
\* is in the table.
C1_EmbeddingFailureInsertsNothing ==
    \A p \in Procs :
        cause[p] = "embed" =>
            /\ pc[p] = "done"
            /\ result[p].success = FALSE
            /\ "insert" \notin calls[p]
            /\ insertedBy[p] = {}
            /\ DocRows(p) = {}

\* an ingestion whose embedding call failed, beside one that stored its rows
C1_Witness ==
    \E p, q \in Procs :
        /\ cause[p] = "embed" /\ Len(chunks[p]) = MaxChunks
        /\ result[q].success /\ DocRows(q) # {}

\* C2: searchDocuments never returns a row whose similarity is <= threshold:
\* a row whose similarity equals the threshold is left out, and while the
\* limit is not reached every row strictly above the threshold is returned.
C2_ThresholdStrict ==
    [][QueryReturns =>
        LET res == ret'.results IN
        /\ \A i \in 1..Len(res) :
            /\ res[i].similarity > sargs.threshold
            /\ res[i].id \in 1..Len(rows)
            /\ rows[res[i].id].embedding # NullEmbedding
            /\ res[i].similarity = Similarity(rows[res[i].id].embedding, qEmb)
        /\ \A r \in RowSet(rows) :
            (r.embedding # NullEmbedding /\ Similarity(r.embedding, qEmb) = sargs.threshold)
                => r.id \notin Ids(res)
        /\ Len(res) < sargs.limit =>
            \A r \in RowSet(rows) :
                (r.embedding # NullEmbedding /\ Similarity(r.embedding, qEmb) > sargs.threshold)
                    => r.id \in Ids(res)]_vars

\* a search that returned a row above the threshold and left out an older
\* row whose similarity is the threshold itself
C2_Witness ==
    /\ spc = "returned" /\ ret.outcome = "ok"
    /\ Len(ret.results) = 1 /\ Len(ret.results) < sargs.limit
    /\ \E r \in RowSet(rows) :
        /\ r.id < ret.results[1].id
        /\ r.embedding # NullEmbedding
        /\ Similarity(r.embedding, qEmb) = sargs.threshold

\* C3: the sequence searchDocuments returns is ordered by non-increasing
\* similarity, and the tool's numbered snippets keep that order.
C3_RankingOrder ==
    (spc = "returned" /\ ret.outcome = "ok") =>
        LET res == ret.results IN
        /\ \A i \in 1..(Len(res) - 1) : res[i].similarity >= res[i + 1].similarity
        /\ (sargs.viaTool /\ Len(res) > 0) =>
            /\ toolOut.kind = "formattedResults"
            /\ Len(toolOut.snippets) = Len(res)
            /\ \A i \in 1..Len(res) :
                /\ toolOut.snippets[i].number = i
                /\ toolOut.snippets[i].content = res[i].content

\* the tool returned two snippets of different similarity, the later row first
C3_Witness ==
    /\ spc = "returned" /\ ret.outcome = "ok" /\ sargs.viaTool
    /\ Len(ret.results) >= 2
    /\ ret.results[1].similarity > ret.results[2].similarity
    /\ ret.results[1].id > ret.results[2].id
    /\ toolOut.snippets[1].content = ret.results[1].content

\* C4: searchDocuments called with limit L returns exactly min(L, N) rows,
\* N being the number of rows strictly above the threshold; the tool formats
\* at most 3 snippets; no row left out is strictly more similar than a
\* returned one.
C4_LimitRespected ==
    [][QueryReturns =>
        LET res == ret'.results
            N == Cardinality(Where(rows, qEmb, sargs.threshold))
        IN
        /\ Len(res) = Min(sargs.limit, N)
        /\ Cardinality(Ids(res)) = Len(res)
        /\ sargs.viaTool => Len(toolOut'.snippets) <= 3
        /\ \A r \in Where(rows, qEmb, sargs.threshold) :
            r.id \notin Ids(res) =>
                \A i \in 1..Len(res) : res[i].similarity >= Similarity(r.embedding, qEmb)]_vars

\* the tool formatted 3 snippets and an older row above the threshold was cut
C4_Witness ==
    /\ spc = "returned" /\ ret.outcome = "ok" /\ sargs.viaTool
    /\ Len(toolOut.snippets) = ToolLimit
    /\ \E r \in RowSet(rows) :
        /\ r.id \notin Ids(ret.results)
        /\ \E i \in 1..Len(ret.results) : r.id < ret.results[i].id
        /\ r.embedding # NullEmbedding
        /\ Similarity(r.embedding, qEmb) > sargs.threshold

\* C5: searchDocuments returns the empty sequence (the tool: "No relevant
\* information found") exactly when the embedding and the query succeeded
\* and no row is above the threshold, the empty table included; a failed
\* embedding or a failed query ends in an error (the tool: the error object),
\* never in an empty result.
C5_NoMatchIsNotAnError ==
    [][(spc # "returned" /\ spc' = "returned") =>
        /\ ret'.outcome \in {"ok", "thrown"}
        /\ spc = "embed" => ret'.outcome = "thrown"
        /\ (spc = "query" /\ DifferentDimensions(rows, qEmb)) => ret'.outcome = "thrown"
        /\ ret'.outcome = "ok" =>
            /\ spc = "query"
            /\ ret'.results = <<>> <=> Where(rows, qEmb, sargs.threshold) = {}
            /\ rows = <<>> => ret'.results = <<>>
        /\ ret'.outcome = "thrown" =>
            /\ ret'.error # ""
            /\ sargs.viaTool =>
                /\ toolOut'.kind = "Failed to search the knowledge base"
                /\ toolOut'.details = ret'.error
        /\ sargs.viaTool =>
            (toolOut' = NoRelevant <=>
                (ret'.outcome = "ok" /\ Where(rows, qEmb, sargs.threshold) = {}))]_vars

\* the tool answered "No relevant information found" over a table that
\* holds a row with an embedding, older than a row without one
C5_Witness ==
    /\ spc = "returned" /\ sargs.viaTool
    /\ ret.outcome = "ok" /\ toolOut = NoRelevant
    /\ \E i, j \in 1..Len(rows) :
        /\ i < j
        /\ rows[i].embedding # NullEmbedding
        /\ Similarity(rows[i].embedding, qEmb) = sargs.threshold
        /\ rows[j].embedding = NullEmbedding

\* C6: two failed ingestions whose causes differ in kind (empty document,
\* embedding service, store) return different results.
C6_FailureKindsDistinguished ==
    \A p, q \in Procs :
        ( /\ pc[p] = "done" /\ pc[q] = "done"
          /\ cause[p] \in {"empty", "embed", "store"}
          /\ cause[q] \in {"empty", "embed", "store"}
          /\ cause[p] # cause[q] )
            => result[p] # result[q]

\* C7: in every state the table holds all of a document's chunk records or
\* none; an ingestion reports success only with all its chunks stored and
\* the reported count equal to the number of rows it added, and failure only
\* with none stored; no step changes a row already stored, and a step of one
\* ingestion leaves the rows of the other documents as they are.
C7_AllOrNothing ==
    /\ [](\A p \in Procs :
            /\ Cardinality(DocRows(p)) \in {0, Len(chunks[p])}
            /\ insertedBy[p] = {r.id : r \in DocRows(p)}
            /\ (pc[p] = "done" /\ result[p].success) =>
                /\ {r.content : r \in DocRows(p)} = {chunks[p][i] : i \in 1..Len(chunks[p])}
                /\ result[p].count = Cardinality(insertedBy[p])
                /\ result[p].count = Len(chunks[p])
                /\ result[p].count > 0
            /\ (pc[p] = "done" /\ ~result[p].success) => DocRows(p) = {}
            /\ pc[p] # "done" => DocRows(p) = {})
    /\ [][ /\ Len(rows') >= Len(rows)
           /\ \A i \in 1..Len(rows) : rows'[i] = rows[i]
           /\ \A p \in Procs :
               pc'[p] = pc[p] =>
                   \A i \in (Len(rows) + 1)..Len(rows') : rows'[i].content.doc # p ]_vars

\* two concurrent ingestions both stored all their chunks, their rows side
\* by side, while a search was in flight
C7_Witness ==
    /\ \A p \in Procs :
        /\ pc[p] = "done" /\ result[p].success
        /\ result[p].count = MaxChunks
    /\ Len(rows) = NumProcs * MaxChunks
    /\ rows[1].content.doc # 1
    /\ spc = "query"

\* C8: every stored row has an embedding of exactly EmbeddingDim coordinates.
C8_FixedDimension ==
    \A i \in 1..Len(rows) : rows[i].embedding.dim = EmbeddingDim

\* C9: an ingestion whose extracted text is absent or blank returns the
\* empty-document failure as its value, having invoked neither the chunker
\* nor the embedding service nor the insert, and no row of it is stored.
C9_EmptyDocumentRejectedFirst ==
    \A p \in Procs :
        ( /\ "getText" \in calls[p]
          /\ cause[p] # "parse"
          /\ \/ ~text[p].present
             \/ \A i \in 1..Len(text[p].chars) : text[p].chars[i] \in {" ", "\n", "\t"} )
            =>
            /\ pc[p] = "done"
            /\ result[p] = EmptyFailure
            /\ result[p].success = FALSE
            /\ calls[p] = {"getText"}
            /\ chunks[p] = <<>>
            /\ insertedBy[p] = {}
            /\ DocRows(p) = {}

\* an ingestion of a text of blanks only was rejected, beside one that
\* stored its rows
C9_Witness ==
    \E p, q \in Procs :
        /\ pc[p] = "done"
        /\ text[p].present /\ Len(text[p].chars) > 0
        /\ result[p] = EmptyFailure
        /\ calls[p] = {"getText"}
        /\ result[q].success /\ DocRows(q) # {}

\* C11: returned rows of equal similarity come in ascending id order, so
\* that the returned sequence is a function of the table, the query, the
\* limit and the threshold.
C11_TiesInIdOrder ==
    (spc = "returned" /\ ret.outcome = "ok") =>
        \A i \in 1..(Len(ret.results) - 1) :
            ret.results[i].similarity = ret.results[i + 1].similarity
                => ret.results[i].id < ret.results[i + 1].id

\* C12 as stated: a request whose path matches a protected route reaches the
\* route handler only through auth.protect(), and a request to /upload... is
\* redirected whenever IS_DEV_MODE is unset.
C12_EveryProtectedPathGated ==
    LET protected ==
            \/ StartsWith(req.path, <<"/", "ui", "/", "rag">>)
            \/ StartsWith(req.path, <<"/", "api", "/", "rag">>)
            \/ StartsWith(req.path, <<"/", "upload">>)
    IN
    (mpc # "idle" /\ protected) =>
        /\ mpc = "handler" => protectCalled
        /\ (StartsWith(req.path, <<"/", "upload">>) /\ ~req.env.set)
            => mpc \in {"matcher", "redirected"}

\* C12, amended: a request that config.matcher selects and whose path
\* matches a protected route reaches the route handler only through
\* auth.protect(), as a signed-in caller; such a request to /upload... is
\* redirected whenever IS_DEV_MODE is unset, signed in or not, and
\* auth.protect() is not called for it; only such requests are redirected.
C12_AccessGate ==
    LET protected ==
            \/ StartsWith(req.path, <<"/", "ui", "/", "rag">>)
            \/ StartsWith(req.path, <<"/", "api", "/", "rag">>)
            \/ StartsWith(req.path, <<"/", "upload">>)
    IN
    (mpc # "idle" /\ protected /\ ConfigMatcher(req.path)) =>
        /\ mpc \in {"matcher", "protect", "handler", "redirected", "rejected"}
        /\ mpc = "handler" => (protectCalled /\ req.signedIn)
        /\ (StartsWith(req.path, <<"/", "upload">>) /\ ~req.env.set)
            => (mpc \in {"matcher", "redirected"} /\ ~protectCalled)
        /\ mpc = "redirected" => StartsWith(req.path, <<"/", "upload">>)

\* a signed-in caller reached the handler of /upload through auth.protect()
\* with IS_DEV_MODE set
C12_Witness ==
    /\ mpc = "handler"
    /\ req.path = <<"/", "upload">>
    /\ req.env.set /\ req.signedIn
    /\ protectCalled

====
